---- MODULE Spec2Model ----
(***************************************************************************)
(* DROPMO: chunked peer-to-peer file transfer over a PeerJS data           *)
(* connection (src/dropmo/src/App.vue, the current revision, lines         *)
(* 353-618).  One sender application holds the selected file (fileToSend)  *)
(* and opens one data connection per selected recipient; every recipient   *)
(* is a separate receiver application with its own connection handler.     *)
(*                                                                         *)
(* A connection is identified with its recipient.  Every handler of the    *)
(* source (a callback of the single-threaded JavaScript event loop) is one *)
(* atomic action.  Bytes are small naturals; chunkSize is 64 * 1024 in the *)
(* source (App.vue:579) and is scaled down here, together with the file    *)
(* sizes, so that files of 0, 1, chunkSize - 1, chunkSize, chunkSize + 1   *)
(* and 2 * chunkSize bytes all occur.  closeReceivedFileModal, with which   *)
(* the user dismisses a received file, is left out: the model keeps what   *)
(* the receiver surfaced last.  statusMessage is kept by the kind of line  *)
(* written, without the names and percentages it interpolates; the sender  *)
(* application writes one statusMessage for all its recipients, of which   *)
(* sStatus[c] is the last line written about recipient c.                  *)
(*                                                                         *)
(* Specifications: Spec (one send to one recipient, with file re-selection *)
(* and repeated ready signals), SpecFanOut (one send to several            *)
(* recipients), SpecAnyPeer (the receiver with any peer as the far end of  *)
(* the connection), SpecRegistry (the signaling server,                    *)
(* src/dropmo/server.js, the current revision, lines 59-76), SpecClient    *)
(* (the application as a client of the signaling server, App.vue 383-410)  *)
(* and SpecRelay (the WebSocket room relay, src/dropmo/server/index.js).   *)
(***************************************************************************)
EXTENDS Naturals, Integers, Sequences, FiniteSets, TLC

\* ------------------------------------------------------------------ bounds
chunkSize == 2
MaxFileSize == 4
MaxSelects == 1
MaxExtraReady == 1
MaxRemoteSize == 2
MaxRemoteSends == 3
MaxRegisters == 2
MaxQueries == 1
MaxOpens == 2
MaxUpdates == 2
MaxListLen == 2
MaxJoins == 3

\* ------------------------------------------------------------ data values
Recipients == {"bob", "carol"}
\* Socket.IO connections to the signaling server, and the PeerJS identifiers
\* their clients announce.
SocketIds == {"s1", "s2", "s3"}
PeerIds == {"p1", "p2"}
\* The identifiers a client can be assigned or be told of.
ClientIds == PeerIds \cup {"p3"}

\* The relay's connection objects (the `ws` of each connection event), the
\* room ids a join message may carry, of which the empty string is falsy,
\* the value of a property that is absent, and the payloads of signal
\* messages.
Connections == {"w1", "w2", "w3"}
Rooms == {"r1", "r2"}
undefined == "undefined"
SessionIds == Rooms \cup {"", undefined}
Payloads == {"offer"}

\* ws.readyState: CONNECTING stands for a connection the relay has not
\* accepted yet; the source names only the value of OPEN.
CONNECTING == 0
OPEN == 1
CLOSING == 2
CLOSED == 3

FileNames == {"a.txt", "b.bin"}

\* The bytes of a file: position i of "a.txt" holds i, of "b.bin" 10 + i, so
\* that bytes of different files and of different positions are all distinct.
FileBytes(name, size) ==
    [i \in 1..size |-> IF name = "a.txt" THEN i ELSE 10 + i]

\* A browser File object: name, MIME type ("" when the browser knows none),
\* size and content.
MkFile(name, size) ==
    [name  |-> name,
     type  |-> IF name = "a.txt" THEN "text/plain" ELSE "",
     size  |-> size,
     bytes |-> FileBytes(name, size)]

Files == {MkFile(n, s) : n \in FileNames, s \in 0..MaxFileSize}

\* Blob.slice(start, end): both ends are clamped to the size of the blob.
BlobSlice(file, start, end) ==
    LET s == IF start < file.size THEN start ELSE file.size
        e == IF end < file.size THEN end ELSE file.size
    IN  IF e <= s THEN <<>> ELSE SubSeq(file.bytes, s + 1, e)

\* What conn.send is given.  buf says whether the value is an ArrayBuffer;
\* type is "" when the value has no (truthy) type property.
ControlMsg(t) ==
    [buf |-> FALSE, type |-> t, name |-> "", mimeType |-> "", size |-> 0,
     bytes |-> <<>>]

\* Mutant of MetadataMsg: the object literal of the earlier revision, whose
\* second `type` key replaces 'metadata' by the file's MIME type.
MetadataMsg_TypeOverwritten(file) ==
    [buf |-> FALSE, type |-> file.type, name |-> file.name,
     mimeType |-> "", size |-> file.size, bytes |-> <<>>]

MetadataMsg(file) ==
    [buf |-> FALSE, type |-> "metadata", name |-> file.name,
     mimeType |-> file.type, size |-> file.size, bytes |-> <<>>]

ChunkMsg(bytes) ==
    [buf |-> TRUE, type |-> "", name |-> "", mimeType |-> "", size |-> 0,
     bytes |-> bytes]

byteLength(data) == Len(data.bytes)

\* let fileMetadata = {}  : no property is defined yet.
EmptyMetadata == [hasSize |-> FALSE, name |-> "", mimeType |-> "", size |-> 0]

\* receivedFileData's initial value: { blob: null, ... }.
NoReceivedFile ==
    [hasBlob |-> FALSE, blob |-> <<>>, name |-> "file",
     type |-> "application/octet-stream"]

IdleReader == [state |-> "idle", result |-> <<>>]

RECURSIVE SumByteLength(_)
\* fileChunks.reduce((acc, chunk) => acc + chunk.byteLength, 0)
SumByteLength(chunks) ==
    IF chunks = <<>> THEN 0
    ELSE byteLength(Head(chunks)) + SumByteLength(Tail(chunks))

RECURSIVE BlobOf(_)
\* new Blob(fileChunks): the chunks' bytes, concatenated in buffer order.
BlobOf(chunks) ==
    IF chunks = <<>> THEN <<>>
    ELSE Head(chunks).bytes \o BlobOf(Tail(chunks))

\* ------------------------------------------------------------------ state
VARIABLES
    fileToSend,     \* sender app: the File selected in the file input
    selects,        \* number of file selections made after the first
    sConn,          \* sender side of each connection: none/connecting/open/closed
    isReady,        \* sender: `let isReady` of each connection
    offset,         \* sender: `let offset` of each transfer
    reader,         \* sender: the transfer's FileReader and its pending result
    slices,         \* history: [start, len] of every slice handed to the reader
    outbox,         \* every value the sender passed to conn.send, in order
    delivered,      \* how many values of outbox the receiver's handler has seen
    inbox,          \* values sent to the sender and not yet handled by it
    readyRecvd,     \* history: `ready` messages the sender's handler has seen
    extraReady,     \* `ready` messages sent by the remote side beyond the first
    rConn,          \* receiver side of each connection: none/waiting/open/closed
    readySent,      \* history: calls of sendReadySignal
    fileChunks,     \* receiver: `const fileChunks`
    fileMetadata,   \* receiver: `let fileMetadata`
    receivedFileData,       \* receiver app: what the modal offers for download
    showReceivedFileModal,  \* receiver app: the modal is visible
    surfaced,       \* history: how many times the receiver surfaced a file
    sStatus,        \* sender app: the last statusMessage written about a recipient
    rStatus,        \* receiver app: its statusMessage
    sockets,        \* signaling server: each Socket.IO connection's state
    users,          \* signaling server: `const users`, socket.id -> PeerJS id
    announced,      \* history: the ids each connection sent with register-peer
    emitted,        \* history: every event the signaling server emitted
    queried,        \* history: get-active-peers events of each connection
    myPeerId,       \* client app: `const myPeerId`, '' until the peer opens
    availablePeers, \* client app: `const availablePeers`
    updates,        \* history: the lists received with active-peers-update
    clientEmitted,  \* history: the events the client emitted on its socket
    sessions,       \* relay: `const sessions`, room id -> array of connections
    sessionId,      \* relay: `ws.sessionId` of each connection
    readyState,     \* relay: `ws.readyState` of each connection
    joined,         \* history: the connection has sent a join message
    sent            \* history: the signal handled last and its peer.send calls

appVars == <<fileToSend, selects>>
senderVars == <<sConn, isReady, offset, reader, slices, readyRecvd>>
channelVars == <<outbox, delivered, inbox, extraReady>>
receiverVars == <<rConn, readySent, fileChunks, fileMetadata,
                  receivedFileData, showReceivedFileModal, surfaced>>
statusVars == <<sStatus, rStatus>>
transferVars == <<appVars, senderVars, channelVars, receiverVars, statusVars>>
serverVars == <<sockets, users, announced, emitted, queried>>
clientVars == <<myPeerId, availablePeers, updates, clientEmitted>>
relayVars == <<sessions, sessionId, readyState, joined, sent>>
signalingVars == <<serverVars, clientVars, relayVars>>
vars == <<transferVars, signalingVars>>

Init ==
    /\ fileToSend \in Files
    /\ selects = 0
    /\ sConn = [c \in Recipients |-> "none"]
    /\ isReady = [c \in Recipients |-> FALSE]
    /\ offset = [c \in Recipients |-> 0]
    /\ reader = [c \in Recipients |-> IdleReader]
    /\ slices = [c \in Recipients |-> <<>>]
    /\ outbox = [c \in Recipients |-> <<>>]
    /\ delivered = [c \in Recipients |-> 0]
    /\ inbox = [c \in Recipients |-> <<>>]
    /\ readyRecvd = [c \in Recipients |-> 0]
    /\ extraReady = [c \in Recipients |-> 0]
    /\ rConn = [c \in Recipients |-> "none"]
    /\ readySent = [c \in Recipients |-> 0]
    /\ fileChunks = [c \in Recipients |-> <<>>]
    /\ fileMetadata = [c \in Recipients |-> EmptyMetadata]
    /\ receivedFileData = [c \in Recipients |-> NoReceivedFile]
    /\ showReceivedFileModal = [c \in Recipients |-> FALSE]
    /\ surfaced = [c \in Recipients |-> 0]
    /\ sStatus = [c \in Recipients |-> "Initializing"]
    /\ rStatus = [c \in Recipients |-> "Initializing"]
    /\ sockets = [s \in SocketIds |-> "unused"]
    /\ users = <<>>
    /\ announced = [s \in SocketIds |-> <<>>]
    /\ emitted = <<>>
    /\ queried = [s \in SocketIds |-> 0]
    /\ myPeerId = ""
    /\ availablePeers = <<>>
    /\ updates = <<>>
    /\ clientEmitted = <<>>
    /\ sessions = <<>>
    /\ sessionId = [ws \in Connections |-> undefined]
    /\ readyState = [ws \in Connections |-> CONNECTING]
    /\ joined = [ws \in Connections |-> FALSE]
    /\ sent = <<>>


\* ------------------------------------------------------ sender application
\* handleFileSelect: the file input stays enabled while transfers run.
handleFileSelect(file) ==
    /\ selects < MaxSelects
    /\ file # fileToSend
    /\ fileToSend' = file
    /\ selects' = selects + 1
    /\ UNCHANGED <<signalingVars, senderVars, channelVars, receiverVars,
                   statusVars>>

\* sendFile: one peer.connect per selected recipient, each with its own
\* isReady.  (The model follows one click of Send: a recipient has at most
\* one connection.)
sendFile(selected) ==
    /\ selected # {}
    /\ \A c \in Recipients : sConn[c] = "none"
    /\ sConn' = [c \in Recipients |->
                    IF c \in selected THEN "connecting" ELSE sConn[c]]
    /\ isReady' = [c \in Recipients |->
                    IF c \in selected THEN FALSE ELSE isReady[c]]
    /\ sStatus' = [c \in Recipients |->
                    IF c \in selected THEN "Connecting to peer" ELSE sStatus[c]]
    /\ UNCHANGED <<signalingVars, appVars, offset, reader, slices, readyRecvd,
                   channelVars, receiverVars, rStatus>>

\* Mutant of SenderOnOpen: the open event itself starts the transfer (the
\* metadata message and the first read), without waiting for `ready`.
SenderOnOpen_StartsTransfer(c) ==
    /\ sConn[c] = "connecting"
    /\ sConn' = [sConn EXCEPT ![c] = "open"]
    /\ outbox' = [outbox EXCEPT ![c] = Append(@, MetadataMsg(fileToSend))]
    /\ reader' = [reader EXCEPT
         ![c] = [state |-> "loading",
                 result |-> BlobSlice(fileToSend, 0, chunkSize)]]
    /\ sStatus' = [sStatus EXCEPT ![c] = "Connection established. Sending file"]
    /\ UNCHANGED <<signalingVars, appVars, isReady, offset, slices, readyRecvd,
                   delivered, inbox, extraReady, receiverVars, rStatus>>

\* conn.on('open') of the sender: a status line, nothing is sent.
SenderOnOpen(c) ==
    /\ sConn[c] = "connecting"
    /\ sConn' = [sConn EXCEPT ![c] = "open"]
    /\ sStatus' = [sStatus EXCEPT ![c] = "Connection established. Waiting for receiver"]
    /\ UNCHANGED <<signalingVars, appVars, isReady, offset, reader, slices, readyRecvd,
                   channelVars, receiverVars, rStatus>>

\* readSlice(o): the slice is taken from the file selected NOW and handed to
\* the FileReader; the result arrives with a later load event.
readSlice(file, o) ==
    [state |-> "loading", result |-> BlobSlice(file, o, o + chunkSize)]

\* Mutant of ReadyAccepted: the isReady flag is not consulted.
ReadyAccepted_NoGuard(data, ready) == data.type = "ready"

\* The guard of the sender's data handler.
ReadyAccepted(data, ready) == data.type = "ready" /\ ~ready

\* Mutant of HandshakeSends: the transfer is started before the ready-ack
\* is sent.
HandshakeSends_MetadataFirst(file) ==
    <<MetadataMsg(file), ControlMsg("ready-ack")>>

\* What the sender hands to conn.send, synchronously, once `ready` is
\* accepted: the ready-ack, then startFileTransfer's metadata message.
HandshakeSends(file) == <<ControlMsg("ready-ack"), MetadataMsg(file)>>

\* Mutant of SenderOnData: startFileTransfer starts no read for a file of
\* zero bytes and reports the file as sent.
SenderOnData_NoReadOfEmptyFile(c) ==
    /\ sConn[c] = "open"
    /\ inbox[c] # <<>>
    /\ LET data == Head(inbox[c]) IN
       /\ inbox' = [inbox EXCEPT ![c] = Tail(@)]
       /\ readyRecvd' = [readyRecvd EXCEPT
                            ![c] = IF data.type = "ready" THEN @ + 1 ELSE @]
       /\ IF ReadyAccepted(data, isReady[c])
          THEN LET r == readSlice(fileToSend, 0) IN
               /\ isReady' = [isReady EXCEPT ![c] = TRUE]
               /\ outbox' = [outbox EXCEPT ![c] = @ \o HandshakeSends(fileToSend)]
               /\ offset' = [offset EXCEPT ![c] = 0]
               /\ IF fileToSend.size > 0
                  THEN /\ reader' = [reader EXCEPT ![c] = r]
                       /\ slices' = [slices EXCEPT
                            ![c] = Append(@, [start |-> 0, len |-> Len(r.result)])]
                       /\ sStatus' = [sStatus EXCEPT
                            ![c] = "Receiver ready. Sending file"]
                  ELSE /\ sStatus' = [sStatus EXCEPT
                            ![c] = "File sent successfully"]
                       /\ UNCHANGED <<reader, slices>>
          ELSE UNCHANGED <<isReady, outbox, offset, reader, slices, sStatus>>
    /\ UNCHANGED <<signalingVars, appVars, sConn, delivered, extraReady, receiverVars, rStatus>>

\* Mutant of SenderOnData: startFileTransfer starts the read of the second
\* slice together with the first, before any frame was sent.
SenderOnData_ReadsAhead(c) ==
    /\ sConn[c] = "open"
    /\ inbox[c] # <<>>
    /\ LET data == Head(inbox[c]) IN
       /\ inbox' = [inbox EXCEPT ![c] = Tail(@)]
       /\ readyRecvd' = [readyRecvd EXCEPT
                            ![c] = IF data.type = "ready" THEN @ + 1 ELSE @]
       /\ IF ReadyAccepted(data, isReady[c])
          THEN LET r  == readSlice(fileToSend, 0)
                   r2 == readSlice(fileToSend, chunkSize)
               IN
               /\ isReady' = [isReady EXCEPT ![c] = TRUE]
               /\ outbox' = [outbox EXCEPT ![c] = @ \o HandshakeSends(fileToSend)]
               /\ offset' = [offset EXCEPT ![c] = 0]
               /\ reader' = [reader EXCEPT ![c] = r]
               /\ slices' = [slices EXCEPT
                    ![c] = @ \o <<[start |-> 0, len |-> Len(r.result)],
                                  [start |-> chunkSize, len |-> Len(r2.result)]>>]
               /\ sStatus' = [sStatus EXCEPT ![c] = "Receiver ready. Sending file"]
          ELSE UNCHANGED <<isReady, outbox, offset, reader, slices, sStatus>>
    /\ UNCHANGED <<signalingVars, appVars, sConn, delivered, extraReady, receiverVars, rStatus>>

\* conn.on('data') of the sender, startFileTransfer included up to its first
\* readSlice(0).
SenderOnData(c) ==
    /\ sConn[c] = "open"
    /\ inbox[c] # <<>>
    /\ LET data == Head(inbox[c]) IN
       /\ inbox' = [inbox EXCEPT ![c] = Tail(@)]
       /\ readyRecvd' = [readyRecvd EXCEPT
                            ![c] = IF data.type = "ready" THEN @ + 1 ELSE @]
       /\ IF ReadyAccepted(data, isReady[c])
          THEN LET r == readSlice(fileToSend, 0) IN
               /\ isReady' = [isReady EXCEPT ![c] = TRUE]
               /\ outbox' = [outbox EXCEPT ![c] = @ \o HandshakeSends(fileToSend)]
               /\ offset' = [offset EXCEPT ![c] = 0]
               /\ reader' = [reader EXCEPT ![c] = r]
               /\ slices' = [slices EXCEPT
                    ![c] = Append(@, [start |-> 0, len |-> Len(r.result)])]
               /\ sStatus' = [sStatus EXCEPT ![c] = "Receiver ready. Sending file"]
          ELSE UNCHANGED <<isReady, outbox, offset, reader, slices, sStatus>>
    /\ UNCHANGED <<signalingVars, appVars, sConn, delivered, extraReady, receiverVars, rStatus>>

\* Mutant of ReaderOnLoad: the load handler of the first revision, which
\* sends the frame and reads on without looking at conn.open.
ReaderOnLoad_NoOpenCheck(c) ==
    /\ reader[c].state = "loading"
    /\ LET result == reader[c].result
           o == offset[c] + Len(result)
       IN  /\ outbox' = [outbox EXCEPT ![c] = Append(@, ChunkMsg(result))]
           /\ offset' = [offset EXCEPT ![c] = o]
           /\ IF o < fileToSend.size
              THEN LET r == readSlice(fileToSend, o) IN
                   /\ reader' = [reader EXCEPT ![c] = r]
                   /\ slices' = [slices EXCEPT
                        ![c] = Append(@, [start |-> o, len |-> Len(r.result)])]
                   /\ sStatus' = [sStatus EXCEPT ![c] = "Sending"]
              ELSE /\ reader' = [reader EXCEPT ![c] = IdleReader]
                   /\ sStatus' = [sStatus EXCEPT ![c] = "File sent successfully"]
                   /\ UNCHANGED slices
    /\ UNCHANGED <<signalingVars, appVars, sConn, isReady, readyRecvd, delivered, inbox,
                   extraReady, receiverVars, rStatus>>

\* reader.onload: send the frame if the connection is open, advance the
\* offset, and read on while it is below the size of the file selected now.
ReaderOnLoad(c) ==
    /\ reader[c].state = "loading"
    /\ IF sConn[c] = "open"
       THEN LET result == reader[c].result
                o == offset[c] + Len(result)
            IN  /\ outbox' = [outbox EXCEPT ![c] = Append(@, ChunkMsg(result))]
                /\ offset' = [offset EXCEPT ![c] = o]
                /\ IF o < fileToSend.size
                   THEN LET r == readSlice(fileToSend, o) IN
                        /\ reader' = [reader EXCEPT ![c] = r]
                        /\ slices' = [slices EXCEPT
                             ![c] = Append(@, [start |-> o, len |-> Len(r.result)])]
                        /\ sStatus' = [sStatus EXCEPT ![c] = "Sending"]
                   ELSE /\ reader' = [reader EXCEPT ![c] = IdleReader]
                        /\ sStatus' = [sStatus EXCEPT ![c] = "File sent successfully"]
                        /\ UNCHANGED slices
       ELSE /\ reader' = [reader EXCEPT ![c] = IdleReader]
            /\ sStatus' = [sStatus EXCEPT ![c] = "Connection lost"]
            /\ UNCHANGED <<outbox, offset, slices>>
    /\ UNCHANGED <<signalingVars, appVars, sConn, isReady, readyRecvd, delivered, inbox,
                   extraReady, receiverVars, rStatus>>

\* reader.onerror: the read failed; a status line, the transfer goes no further.
ReaderOnError(c) ==
    /\ reader[c].state = "loading"
    /\ reader' = [reader EXCEPT ![c] = [state |-> "error", result |-> <<>>]]
    /\ sStatus' = [sStatus EXCEPT ![c] = "Error reading file"]
    /\ UNCHANGED <<signalingVars, appVars, sConn, isReady, offset, slices, readyRecvd,
                   channelVars, receiverVars, rStatus>>

\* conn.on('close') of the sender: the connection is closed; the handler
\* only logs to the console.
SenderOnClose(c) ==
    /\ sConn[c] \in {"connecting", "open"}
    /\ sConn' = [sConn EXCEPT ![c] = "closed"]
    /\ UNCHANGED <<signalingVars, appVars, isReady, offset, reader, slices, readyRecvd,
                   channelVars, receiverVars, statusVars>>

\* Mutant of SenderOnError: the handler gives up the whole send, closing the
\* connection of every recipient.
SenderOnError_ClosesAll(c) ==
    /\ sConn[c] \in {"connecting", "open"}
    /\ sConn' = [d \in Recipients |->
                   IF sConn[d] \in {"connecting", "open"} THEN "closed"
                   ELSE sConn[d]]
    /\ sStatus' = [sStatus EXCEPT ![c] = "Connection Error"]
    /\ UNCHANGED <<signalingVars, appVars, isReady, offset, reader, slices, readyRecvd,
                   channelVars, receiverVars, rStatus>>

\* conn.on('error') of the sender: the connection fails (it is closed from
\* then on); the handler writes a status line.
SenderOnError(c) ==
    /\ sConn[c] \in {"connecting", "open"}
    /\ sConn' = [sConn EXCEPT ![c] = "closed"]
    /\ sStatus' = [sStatus EXCEPT ![c] = "Connection Error"]
    /\ UNCHANGED <<signalingVars, appVars, isReady, offset, reader, slices, readyRecvd,
                   channelVars, receiverVars, rStatus>>


\* ---------------------------------------------------- receiver application
\* sendReadySignal: conn.send({ type: 'ready' }).
sendReadySignal(c) ==
    /\ inbox' = [inbox EXCEPT ![c] = Append(@, ControlMsg("ready"))]
    /\ readySent' = [readySent EXCEPT ![c] = @ + 1]
    /\ rStatus' = [rStatus EXCEPT ![c] = "Ready to receive"]

\* Mutant of ReceiverOnConnection: sendReadySignal is registered for the open
\* event only, so a connection already open when the handler runs never
\* signals.
ReceiverOnConnection_OpenEventOnly(c) ==
    /\ sConn[c] \in {"connecting", "open"}
    /\ rConn[c] = "none"
    /\ \E alreadyOpen \in BOOLEAN :
          rConn' = [rConn EXCEPT
                      ![c] = IF alreadyOpen THEN "open" ELSE "waiting"]
    /\ rStatus' = [rStatus EXCEPT ![c] = "Incoming connection"]
    /\ UNCHANGED <<signalingVars, appVars, senderVars, channelVars, readySent,
                   fileChunks, fileMetadata, receivedFileData,
                   showReceivedFileModal, surfaced, sStatus>>

\* peer.on('connection'): the handler finds the connection already open
\* (alreadyOpen) and signals at once, or registers sendReadySignal for the
\* connection's open event.
ReceiverOnConnection(c) ==
    /\ sConn[c] \in {"connecting", "open"}
    /\ rConn[c] = "none"
    /\ \E alreadyOpen \in BOOLEAN :
          IF alreadyOpen
          THEN /\ rConn' = [rConn EXCEPT ![c] = "open"]
               /\ sendReadySignal(c)
          ELSE /\ rConn' = [rConn EXCEPT ![c] = "waiting"]
               /\ rStatus' = [rStatus EXCEPT ![c] = "Incoming connection"]
               /\ UNCHANGED <<inbox, readySent>>
    /\ UNCHANGED <<signalingVars, appVars, senderVars, outbox, delivered, extraReady,
                   fileChunks, fileMetadata, receivedFileData,
                   showReceivedFileModal, surfaced, sStatus>>

\* conn.on('open', sendReadySignal): the open event of a connection that was
\* not yet open when the handler ran.
ReceiverOnOpen(c) ==
    /\ rConn[c] = "waiting"
    /\ rConn' = [rConn EXCEPT ![c] = "open"]
    /\ sendReadySignal(c)
    /\ UNCHANGED <<signalingVars, appVars, senderVars, outbox, delivered, extraReady,
                   fileChunks, fileMetadata, receivedFileData,
                   showReceivedFileModal, surfaced, sStatus>>

\* The remote end of a connection is any PeerJS peer: it may repeat its
\* `ready` message, which is one more input of the sender's data handler.
RemoteReadyAgain(c) ==
    /\ rConn[c] = "open"
    /\ extraReady[c] < MaxExtraReady
    /\ extraReady' = [extraReady EXCEPT ![c] = @ + 1]
    /\ inbox' = [inbox EXCEPT ![c] = Append(@, ControlMsg("ready"))]
    /\ UNCHANGED <<signalingVars, appVars, senderVars, outbox, delivered, receiverVars,
                   statusVars>>

\* Mutant of IsControlMessage: only metadata is known as a control message,
\* so a ready-ack is taken for a chunk.
IsControlMessage_MetadataOnly(data) == data.type = "metadata" /\ ~data.buf

\* data && typeof data === 'object' && data.type && !(data instanceof ArrayBuffer)
IsControlMessage(data) == data.type # "" /\ ~data.buf

\* Mutant of AllChunksReceived: the comparison is an exact equality.
AllChunksReceived_ExactSize(metadata, receivedSize) ==
    metadata.hasSize /\ receivedSize = metadata.size

\* Mutant of AllChunksReceived: the comparison is strict.
AllChunksReceived_Strict(metadata, receivedSize) ==
    metadata.hasSize /\ receivedSize > metadata.size

\* fileMetadata.size !== undefined && receivedSize >= fileMetadata.size
AllChunksReceived(metadata, receivedSize) ==
    metadata.hasSize /\ receivedSize >= metadata.size

\* conn.on('data') of the receiver.
ReceiverOnData(c) ==
    /\ rConn[c] = "open"
    /\ delivered[c] < Len(outbox[c])
    /\ delivered' = [delivered EXCEPT ![c] = @ + 1]
    /\ LET data == outbox[c][delivered[c] + 1] IN
       IF IsControlMessage(data)
       THEN /\ fileMetadata' =
                 IF data.type = "metadata"
                 THEN [fileMetadata EXCEPT
                         ![c] = [hasSize |-> TRUE, name |-> data.name,
                                 mimeType |-> data.mimeType, size |-> data.size]]
                 ELSE fileMetadata
            /\ rStatus' =
                 IF data.type = "metadata"
                 THEN [rStatus EXCEPT ![c] = "Receiving file"]
                 ELSE rStatus
            /\ UNCHANGED <<fileChunks, receivedFileData,
                           showReceivedFileModal, surfaced>>
       ELSE LET chunks == Append(fileChunks[c], data)
                receivedSize == SumByteLength(chunks)
                metadata == fileMetadata[c]
            IN  /\ fileChunks' = [fileChunks EXCEPT ![c] = chunks]
                /\ IF AllChunksReceived(metadata, receivedSize)
                   THEN /\ receivedFileData' = [receivedFileData EXCEPT
                             ![c] = [hasBlob |-> TRUE,
                                     blob |-> BlobOf(chunks),
                                     name |-> metadata.name,
                                     type |-> IF metadata.mimeType # ""
                                              THEN metadata.mimeType
                                              ELSE "application/octet-stream"]]
                        /\ showReceivedFileModal' =
                             [showReceivedFileModal EXCEPT ![c] = TRUE]
                        /\ surfaced' = [surfaced EXCEPT ![c] = @ + 1]
                        /\ rStatus' = [rStatus EXCEPT
                             ![c] = "File received successfully"]
                   ELSE /\ rStatus' =
                             IF metadata.hasSize
                             THEN [rStatus EXCEPT ![c] = "Receiving file"]
                             ELSE rStatus
                        /\ UNCHANGED <<receivedFileData, showReceivedFileModal,
                                       surfaced>>
                /\ UNCHANGED fileMetadata
    /\ UNCHANGED <<signalingVars, appVars, senderVars, outbox, inbox, extraReady, rConn,
                   readySent, sStatus>>

\* conn.on('close') of the receiver: the connection is closed; the handler
\* only logs to the console.
ReceiverOnClose(c) ==
    /\ rConn[c] \in {"waiting", "open"}
    /\ rConn' = [rConn EXCEPT ![c] = "closed"]
    /\ UNCHANGED <<signalingVars, appVars, senderVars, channelVars, readySent, fileChunks,
                   fileMetadata, receivedFileData, showReceivedFileModal,
                   surfaced, statusVars>>

\* conn.on('error') of the receiver: the connection fails (it is closed from
\* then on); the handler writes a status line.
ReceiverOnError(c) ==
    /\ rConn[c] \in {"waiting", "open"}
    /\ rConn' = [rConn EXCEPT ![c] = "closed"]
    /\ rStatus' = [rStatus EXCEPT ![c] = "Data connection error"]
    /\ UNCHANGED <<signalingVars, appVars, senderVars, channelVars, readySent, fileChunks,
                   fileMetadata, receivedFileData, showReceivedFileModal,
                   surfaced, sStatus>>

\* ---------------------------------------------------------- specification
\* One file sent to one recipient.
Next ==
    \/ \E file \in Files : handleFileSelect(file)
    \/ \E c \in Recipients : sendFile({c})
    \/ \E c \in Recipients : SenderOnOpen(c)
    \/ \E c \in Recipients : SenderOnData(c)
    \/ \E c \in Recipients : ReaderOnLoad(c)
    \/ \E c \in Recipients : ReaderOnError(c)
    \/ \E c \in Recipients : SenderOnClose(c)
    \/ \E c \in Recipients : SenderOnError(c)
    \/ \E c \in Recipients : ReceiverOnConnection(c)
    \/ \E c \in Recipients : ReceiverOnOpen(c)
    \/ \E c \in Recipients : RemoteReadyAgain(c)
    \/ \E c \in Recipients : ReceiverOnData(c)
    \/ \E c \in Recipients : ReceiverOnClose(c)
    \/ \E c \in Recipients : ReceiverOnError(c)

Spec == Init /\ [][Next]_vars

\* One click on Send with any selection of recipients: sendFile runs its
\* forEach over all of them, and the sessions run side by side, each with
\* its own closures, errors and read errors.  The selected file is kept and
\* `ready` is signalled once, as the receiver application does.
NextFanOut ==
    \/ \E selected \in SUBSET Recipients : sendFile(selected)
    \/ \E c \in Recipients : SenderOnOpen(c)
    \/ \E c \in Recipients : SenderOnData(c)
    \/ \E c \in Recipients : ReaderOnLoad(c)
    \/ \E c \in Recipients : ReaderOnError(c)
    \/ \E c \in Recipients : SenderOnClose(c)
    \/ \E c \in Recipients : SenderOnError(c)
    \/ \E c \in Recipients : ReceiverOnConnection(c)
    \/ \E c \in Recipients : ReceiverOnOpen(c)
    \/ \E c \in Recipients : ReceiverOnData(c)
    \/ \E c \in Recipients : ReceiverOnClose(c)
    \/ \E c \in Recipients : ReceiverOnError(c)

SpecFanOut == Init /\ [][NextFanOut]_vars


\* ------------------------------------------------- any peer as the far end
\* The receiver accepts a data connection from any peer that knows its
\* identifier, and that peer may send any value in any order.  Here sConn[c]
\* is the far end of that connection and outbox[c] what the peer sent on it.
RemoteMessages ==
    {ControlMsg("ready-ack")}
    \cup {MetadataMsg(MkFile("a.txt", n)) : n \in 0..MaxRemoteSize}
    \cup {ChunkMsg(FileBytes("a.txt", n)) : n \in 0..MaxRemoteSize}

\* A peer opens a data connection to the application: peer.on('connection')
\* will run for it.  One incoming connection is followed.
RemoteConnects(c) ==
    /\ \A d \in Recipients : sConn[d] = "none"
    /\ sConn' = [sConn EXCEPT ![c] = "open"]
    /\ UNCHANGED <<signalingVars, appVars, isReady, offset, reader, slices, readyRecvd,
                   channelVars, receiverVars, statusVars>>

\* The peer sends a value on the connection.
RemoteSends(c, msg) ==
    /\ sConn[c] = "open"
    /\ Len(outbox[c]) < MaxRemoteSends
    /\ outbox' = [outbox EXCEPT ![c] = Append(@, msg)]
    /\ UNCHANGED <<signalingVars, appVars, senderVars, delivered, inbox, extraReady,
                   receiverVars, statusVars>>

\* The peer's end of the connection closes.
RemoteCloses(c) ==
    /\ sConn[c] = "open"
    /\ sConn' = [sConn EXCEPT ![c] = "closed"]
    /\ UNCHANGED <<signalingVars, appVars, isReady, offset, reader, slices, readyRecvd,
                   channelVars, receiverVars, statusVars>>

InitAnyPeer == Init /\ fileToSend = MkFile("a.txt", 0)

NextAnyPeer ==
    \/ \E c \in Recipients : RemoteConnects(c)
    \/ \E c \in Recipients : \E msg \in RemoteMessages : RemoteSends(c, msg)
    \/ \E c \in Recipients : RemoteCloses(c)
    \/ \E c \in Recipients : ReceiverOnConnection(c)
    \/ \E c \in Recipients : ReceiverOnOpen(c)
    \/ \E c \in Recipients : ReceiverOnData(c)
    \/ \E c \in Recipients : ReceiverOnClose(c)
    \/ \E c \in Recipients : ReceiverOnError(c)

SpecAnyPeer == InitAnyPeer /\ [][NextAnyPeer]_vars

\* ------------------------------------------------------- signaling server
\* io.on("connection"): a client's Socket.IO connection is up and its
\* handlers are registered.
ServerOnConnection(s) ==
    /\ sockets[s] = "unused"
    /\ sockets' = [sockets EXCEPT ![s] = "connected"]
    /\ UNCHANGED <<users, announced, emitted, queried, clientVars, relayVars, transferVars>>

\* socket.on("register-peer"): users[socket.id] = peerId.
RegisterPeer(s, peerId) ==
    /\ sockets[s] = "connected"
    /\ Len(announced[s]) < MaxRegisters
    /\ users' = [x \in DOMAIN users \cup {s} |->
                    IF x = s THEN peerId ELSE users[x]]
    /\ announced' = [announced EXCEPT ![s] = Append(@, peerId)]
    /\ UNCHANGED <<sockets, emitted, queried, clientVars, relayVars, transferVars>>

\* Mutant of ServerOnDisconnect: the entry of the connection is left in users.
ServerOnDisconnect_KeepsEntry(s) ==
    /\ sockets[s] = "connected"
    /\ sockets' = [sockets EXCEPT ![s] = "disconnected"]
    /\ UNCHANGED <<users, announced, emitted, queried, clientVars, relayVars, transferVars>>

\* Mutant of ServerOnDisconnect: the handler empties the registry.
ServerOnDisconnect_ClearsAll(s) ==
    /\ sockets[s] = "connected"
    /\ sockets' = [sockets EXCEPT ![s] = "disconnected"]
    /\ users' = <<>>
    /\ UNCHANGED <<announced, emitted, queried, clientVars, relayVars, transferVars>>

\* socket.on("disconnect"): delete users[socket.id].
ServerOnDisconnect(s) ==
    /\ sockets[s] = "connected"
    /\ sockets' = [sockets EXCEPT ![s] = "disconnected"]
    /\ users' = [x \in DOMAIN users \ {s} |-> users[x]]
    /\ UNCHANGED <<announced, emitted, queried, clientVars, relayVars, transferVars>>

\* The client's socket.emit('get-active-peers') reaches the server, which
\* has registered no handler for the event: nothing is run.
GetActivePeers(s) ==
    /\ sockets[s] = "connected"
    /\ queried[s] < MaxQueries
    /\ queried' = [queried EXCEPT ![s] = @ + 1]
    /\ UNCHANGED <<sockets, users, announced, emitted, clientVars,
                   relayVars, transferVars>>

InitRegistry == Init /\ fileToSend = MkFile("a.txt", 0)

NextRegistry ==
    \/ \E s \in SocketIds : ServerOnConnection(s)
    \/ \E s \in SocketIds : \E peerId \in PeerIds : RegisterPeer(s, peerId)
    \/ \E s \in SocketIds : ServerOnDisconnect(s)
    \/ \E s \in SocketIds : GetActivePeers(s)

SpecRegistry == InitRegistry /\ [][NextRegistry]_vars

\* ------------------------------------------------ client of the signaling
\* The application as a client of whatever signaling server runs at
\* SIGNALING_HOST: the server may push any list of identifiers at any time.
\* The lists a server can push: identifiers without repetition.
PeerLists ==
    {l \in UNION {[1..n -> ClientIds] : n \in 0..MaxListLen} :
        \A i, j \in DOMAIN l : l[i] = l[j] => i = j}

\* The identifiers the client was told of so far.
Listed == UNION {{u[i] : i \in DOMAIN u} : u \in {updates[k] : k \in DOMAIN updates}}

\* peerIds.filter(id => id !== myPeerId.value)
FilterOwn(peerIds, own) ==
    LET NotOwn(id) == id # own IN SelectSeq(peerIds, NotOwn)

\* Mutant of ActivePeersUpdate: the received list is stored as it came.
ActivePeersUpdate_NoFilter(peerIds) ==
    /\ Len(updates) < MaxUpdates
    /\ availablePeers' = peerIds
    /\ updates' = Append(updates, peerIds)
    /\ UNCHANGED <<myPeerId, clientEmitted, serverVars, relayVars, transferVars>>

\* socket.on('active-peers-update').
ActivePeersUpdate(peerIds) ==
    /\ Len(updates) < MaxUpdates
    /\ availablePeers' = FilterOwn(peerIds, myPeerId)
    /\ updates' = Append(updates, peerIds)
    /\ UNCHANGED <<myPeerId, clientEmitted, serverVars, relayVars, transferVars>>

\* peer.on('open'): the PeerJS server assigned an identifier to the peer
\* created with new Peer(''), one that no other peer holds, hence one the
\* client was not told of.  The socket's connect handler creates a new peer
\* at every (re)connection, so the event can occur again with a new
\* identifier.  The handler's status line is not kept.
ClientPeerOnOpen(id) ==
    /\ Len(clientEmitted) < 2 * MaxOpens
    /\ id # myPeerId /\ id \notin Listed
    /\ myPeerId' = id
    /\ clientEmitted' = clientEmitted \o
            <<[event |-> "register-peer", peerId |-> id],
              [event |-> "get-active-peers", peerId |-> ""]>>
    /\ UNCHANGED <<availablePeers, updates, serverVars, relayVars, transferVars>>

InitClient == Init /\ fileToSend = MkFile("a.txt", 0)

NextClient ==
    \/ \E id \in ClientIds : ClientPeerOnOpen(id)
    \/ \E peerIds \in PeerLists : ActivePeersUpdate(peerIds)

SpecClient == InitClient /\ [][NextClient]_vars

\* ------------------------------------------------------------- room relay
\* JSON.stringify(data.payload): the text handed to peer.send.
JSONStringify(value) == [json |-> value]

\* `!ws.sessionId`: an absent room id and the empty string are falsy.
Falsy(id) == id \in {undefined, ""}

\* sessions.get(id) || []
SessionsGet(id) == IF id \in DOMAIN sessions THEN sessions[id] ELSE <<>>

\* sessions.set(id, peers)
SessionsSet(id, peers) ==
    [k \in DOMAIN sessions \cup {id} |-> IF k = id THEN peers ELSE sessions[k]]

\* The connections that appear in the array peers.
Members(peers) == {peers[i] : i \in DOMAIN peers}

\* How many entries the arrays of all rooms hold.
Listings ==
    Cardinality(UNION {{<<k, i>> : i \in DOMAIN sessions[k]} :
                           k \in DOMAIN sessions})

\* wss.on("connection"): the relay accepts a connection, which is open, and
\* registers its handlers; the object has no sessionId property yet.
WssOnConnection(ws) ==
    /\ readyState[ws] = CONNECTING
    /\ readyState' = [readyState EXCEPT ![ws] = OPEN]
    /\ UNCHANGED <<sessions, sessionId, joined, sent, serverVars, clientVars,
                   transferVars>>

\* ws.on("message"), data.type === "join": id is data.sessionId, undefined
\* when the message carries none.
Join(ws, id) ==
    /\ readyState[ws] = OPEN
    /\ Listings < MaxJoins
    /\ sessionId' = [sessionId EXCEPT ![ws] = id]
    /\ sessions' = SessionsSet(id, Append(SessionsGet(id), ws))
    /\ joined' = [joined EXCEPT ![ws] = TRUE]
    /\ UNCHANGED <<readyState, sent, serverVars, clientVars, transferVars>>

\* Mutant of ForwardTo: the forEach sends to every entry of the array.
ForwardTo_WholeRoom(peers, ws) == peers

\* The connections the forEach of the signal branch calls peer.send on, in
\* the order of the calls.
ForwardTo(peers, ws) ==
    SelectSeq(peers, LAMBDA peer : peer # ws /\ readyState[peer] = OPEN)

\* ws.on("message"), data.type === "signal": every call sends the same
\* text; `to` lists the connections sent to, in the order of the calls.
Signal(ws, payload) ==
    /\ readyState[ws] = OPEN
    /\ sent' = <<[from |-> ws,
                  text |-> JSONStringify(payload),
                  to |-> ForwardTo(SessionsGet(sessionId[ws]), ws)]>>
    /\ UNCHANGED <<sessions, sessionId, readyState, joined, serverVars,
                   clientVars, transferVars>>

\* The far end closes or the socket ends: the connection is closing and its
\* close event has not been emitted yet.
WsClosing(ws) ==
    /\ readyState[ws] = OPEN
    /\ readyState' = [readyState EXCEPT ![ws] = CLOSING]
    /\ UNCHANGED <<sessions, sessionId, joined, sent, serverVars, clientVars,
                   transferVars>>

\* ws.on("close"): the connection is closed; it is filtered out of the
\* array of the room its sessionId names, if that is truthy.
WsOnClose(ws) ==
    /\ readyState[ws] \in {OPEN, CLOSING}
    /\ readyState' = [readyState EXCEPT ![ws] = CLOSED]
    /\ IF Falsy(sessionId[ws])
       THEN sessions' = sessions
       ELSE sessions' = SessionsSet(sessionId[ws],
                SelectSeq(SessionsGet(sessionId[ws]), LAMBDA peer : peer # ws))
    /\ UNCHANGED <<sessionId, joined, sent, serverVars, clientVars,
                   transferVars>>

InitRelay == Init /\ fileToSend = MkFile("a.txt", 0)

NextRelay ==
    \/ \E ws \in Connections : WssOnConnection(ws)
    \/ \E ws \in Connections : \E id \in SessionIds : Join(ws, id)
    \/ \E ws \in Connections : \E payload \in Payloads : Signal(ws, payload)
    \/ \E ws \in Connections : WsClosing(ws)
    \/ \E ws \in Connections : WsOnClose(ws)

SpecRelay == InitRelay /\ [][NextRelay]_vars

\* ------------------------------------------------- vocabulary of the claims
\* The receiver has surfaced a completed transfer on connection c.
Complete(c) == showReceivedFileModal[c]

\* The receiver's accumulated byte count.
ReceivedSize(c) == SumByteLength(fileChunks[c])

\* The bytes of the file the session's metadata message describes.
SourceBytes(c) == FileBytes(outbox[c][2].name, outbox[c][2].size)

\* How many values of a given type property the sender handed to conn.send.
SentOfType(c, t) ==
    Cardinality({i \in DOMAIN outbox[c] : outbox[c][i].type = t})

ChunksSent(c) == Cardinality({i \in DOMAIN outbox[c] : outbox[c][i].buf})

\* Nothing more can happen on connection c, which is open at both ends:
\* every message was handled and no read is outstanding.
Quiescent(c) ==
    /\ sConn[c] = "open" /\ rConn[c] = "open"
    /\ inbox[c] = <<>>
    /\ delivered[c] = Len(outbox[c])
    /\ reader[c].state = "idle"

\* ------------------------------------------------------------------ claims

\* C1: whenever the receiver surfaces a completed transfer, the surfaced
\* payload (its buffered chunks, concatenated in arrival order) equals the
\* source bytes of the file the metadata describes, and the received byte
\* count equals the declared total size.
C1_RoundTrip ==
    \A c \in Recipients :
        Complete(c) =>
            /\ receivedFileData[c].blob = SourceBytes(c)
            /\ ReceivedSize(c) = fileMetadata[c].size

\* Supporting lemma: the round trip of C1 holds of every run in which the
\* file selection is never changed.
RoundTripWhenSelectionKept == selects = 0 => C1_RoundTrip

\* C2: the sender sends nothing and starts no read on a connection before
\* its data handler has seen a `ready` message on it; the open event alone
\* starts nothing.
C2_NoSendBeforeReady ==
    \A c \in Recipients :
        readyRecvd[c] = 0 =>
            /\ outbox[c] = <<>>
            /\ slices[c] = <<>>
            /\ reader[c].state = "idle"

\* The sender's connection is open, `ready` is on its way, nothing was sent.
C2_Witness ==
    \E c \in Recipients :
        /\ sConn[c] = "open" /\ readyRecvd[c] = 0
        /\ inbox[c] # <<>> /\ outbox[c] = <<>>

\* C3: a sender that has seen `ready` two or more times on a connection has
\* sent exactly one ready-ack and exactly one metadata message on it, that
\* is, it has started exactly one transmission.
C3_OneStreamPerChannel ==
    \A c \in Recipients :
        readyRecvd[c] >= 2 =>
            /\ SentOfType(c, "ready-ack") = 1
            /\ SentOfType(c, "metadata") = 1

\* `ready` was handled twice and the one stream has sent a chunk.
C3_Witness ==
    \E c \in Recipients : readyRecvd[c] >= 2 /\ ChunksSent(c) >= 1

\* C4: the receiver calls sendReadySignal exactly once per incoming
\* connection: never before the connection is open, once as soon as it is
\* open (already at the handler's run, or at the later open event), and never
\* again.
C4_ReadyExactlyOnce ==
    \A c \in Recipients :
        /\ readySent[c] <= 1
        /\ rConn[c] \in {"none", "waiting"} => readySent[c] = 0
        /\ rConn[c] = "open" => readySent[c] = 1

\* `ready` was signalled once on an open connection and the transfer has
\* gone on since, without a second signal.
C4_Witness ==
    \E c \in Recipients :
        rConn[c] = "open" /\ readySent[c] = 1 /\ fileChunks[c] # <<>>

\* C5: on every connection the sender's messages are the ready-ack, then
\* one metadata message, then chunks only.
C5_AckMetadataChunks ==
    \A c \in Recipients :
        outbox[c] # <<>> =>
            /\ Len(outbox[c]) >= 2
            /\ outbox[c][1] = ControlMsg("ready-ack")
            /\ outbox[c][2].type = "metadata" /\ ~outbox[c][2].buf
            /\ \A i \in 3..Len(outbox[c]) : outbox[c][i].buf

\* Two chunks follow the metadata message.
C5_Witness == \E c \in Recipients : ChunksSent(c) >= 2

\* C6: once metadata was received, the accumulated received byte count never
\* exceeds the declared total size.
C6_CountWithinTotal ==
    \A c \in Recipients :
        fileMetadata[c].hasSize => ReceivedSize(c) <= fileMetadata[c].size

\* Supporting lemma: C6 holds of every run in which the file selection is
\* never changed.
CountWithinTotalWhenSelectionKept == selects = 0 => C6_CountWithinTotal


C9_CompleteWhenAllDelivered ==
    \A c \in Recipients :
        (Quiescent(c) /\ readyRecvd[c] >= 1) =>
            /\ Complete(c)
            /\ receivedFileData[c].hasBlob
            /\ receivedFileData[c].name = fileMetadata[c].name

\* Supporting lemma: C9 holds of every run in which the file selection is
\* never changed.
CompleteWhenSelectionKept == selects = 0 => C9_CompleteWhenAllDelivered

\* C10: the slices the sender reads for a transfer are each of at most
\* chunkSize bytes, start at 0 and each where the previous one ended, and all
\* but the last have exactly chunkSize bytes.
C10_SlicesTileTheSource ==
    \A c \in Recipients :
        \A i \in DOMAIN slices[c] :
            /\ slices[c][i].len <= chunkSize
            /\ slices[c][i].start =
                 IF i = 1 THEN 0
                 ELSE slices[c][i - 1].start + slices[c][i - 1].len
            /\ i < Len(slices[c]) => slices[c][i].len = chunkSize

\* Supporting lemma: C10 holds of every run in which the file selection is
\* never changed.
SlicesTileWhenSelectionKept == selects = 0 => C10_SlicesTileTheSource

\* C11 as stated: for a source of zero bytes the sender sends no chunk
\* message after the metadata.
C11_NoChunkForEmptySource ==
    \A c \in Recipients :
        (Len(outbox[c]) >= 2 /\ outbox[c][2].size = 0) => ChunksSent(c) = 0

\* C11, amended: for a source of zero bytes the sender does send a chunk.
\* The first read of the session is the slice [0, 0); the first chunk message
\* carries zero bytes; and once that read's load event was handled with the
\* connection open, a chunk message follows the metadata.
C11_EmptySourceSendsEmptyChunk ==
    \A c \in Recipients :
        (Len(outbox[c]) >= 2 /\ outbox[c][2].size = 0) =>
            /\ slices[c] # <<>>
            /\ slices[c][1] = [start |-> 0, len |-> 0]
            /\ Len(outbox[c]) >= 3 => outbox[c][3] = ChunkMsg(<<>>)
            /\ (sConn[c] = "open" /\ reader[c].state = "idle")
                    => ChunksSent(c) >= 1

\* A session for a file of zero bytes has sent its metadata and one chunk of
\* zero bytes, and its reader is idle.
C11_Witness ==
    \E c \in Recipients :
        /\ selects = 0 /\ fileToSend.size = 0
        /\ Len(outbox[c]) = 3 /\ outbox[c][2].size = 0
        /\ outbox[c][3] = ChunkMsg(<<>>)
        /\ sConn[c] = "open" /\ reader[c].state = "idle"

\* C12: the sender has at most one frame read outstanding, and the read of
\* frame k+1 is started only after frame k was handed to conn.send: the reads
\* started never exceed the chunks sent by more than one, and while a read is
\* outstanding they exceed them by exactly one.
C12_OneReadOutstanding ==
    \A c \in Recipients :
        /\ Len(slices[c]) <= ChunksSent(c) + 1
        /\ reader[c].state = "loading" => Len(slices[c]) = ChunksSent(c) + 1

\* The read of the second frame is outstanding, the first frame was sent.
C12_Witness ==
    \E c \in Recipients :
        /\ reader[c].state = "loading"
        /\ Len(slices[c]) = 2 /\ ChunksSent(c) = 1

\* C13: once the sender's connection has closed, nothing more is handed to
\* conn.send on it and no further frame read is started.
C13_NoSendAfterClose ==
    [][\A c \in Recipients :
          sConn[c] = "closed" =>
              /\ outbox'[c] = outbox[c]
              /\ slices'[c] = slices[c]]_vars

\* The connection closed while a read was outstanding in mid-stream; the load
\* event was handled and the frame dropped.
C13_Witness ==
    \E c \in Recipients :
        /\ sConn[c] = "closed"
        /\ reader[c].state = "idle"
        /\ ChunksSent(c) >= 1
        /\ Len(slices[c]) = ChunksSent(c) + 1
        /\ sStatus[c] = "Connection lost"

\* The status lines by which the applications report a failed transfer.
FailureLines ==
    {"Connection Error", "Connection lost", "Error reading file",
     "Data connection error"}

\* The sender has passed every byte of the selected file to conn.send.
AllBytesSent(c) == isReady[c] /\ reader[c].state = "idle" /\ offset[c] >= fileToSend.size

\* C14 as stated: once a side's connection has closed, a session that was not
\* complete on that side shows a failure line there.
C14_CloseSurfacesFailure ==
    \A c \in Recipients :
        /\ (rConn[c] = "closed" /\ ~Complete(c)) => rStatus[c] \in FailureLines
        /\ (sConn[c] = "closed" /\ ~AllBytesSent(c)) => sStatus[c] \in FailureLines

\* Everything the two applications keep for the session with recipient c.
SessionOf(c) ==
    <<sConn[c], isReady[c], offset[c], reader[c], slices[c], readyRecvd[c],
      outbox[c], delivered[c], inbox[c], extraReady[c],
      rConn[c], readySent[c], fileChunks[c], fileMetadata[c],
      receivedFileData[c], showReceivedFileModal[c], surfaced[c],
      sStatus[c], rStatus[c]>>

\* Which handlers of the session with recipient c can run.
EnabledSteps(c) ==
    <<ENABLED SenderOnOpen(c), ENABLED SenderOnData(c), ENABLED ReaderOnLoad(c),
      ENABLED ReceiverOnConnection(c), ENABLED ReceiverOnOpen(c),
      ENABLED ReceiverOnData(c)>>

\* A step in which the session with recipient d fails: one of its connection
\* ends closes, or its file read fails.
SessionFails(d) ==
    \/ sConn[d] # "closed" /\ sConn'[d] = "closed"
    \/ rConn[d] # "closed" /\ rConn'[d] = "closed"
    \/ reader[d].state # "error" /\ reader'[d].state = "error"

\* C15: in a send to several recipients each session has its own state, and
\* a failure or closure in one session leaves every other session as it was,
\* able to take the same steps; whatever happened to the others, a session
\* whose own connection stayed open and that has nothing left to do has sent
\* every byte and its receiver has surfaced the file.
C15_SessionsIndependent ==
    /\ [](\A c \in Recipients :
             (Quiescent(c) /\ readyRecvd[c] >= 1) =>
                 /\ AllBytesSent(c)
                 /\ Complete(c)
                 /\ receivedFileData[c].blob = fileToSend.bytes)
    /\ [][\A d \in Recipients :
             SessionFails(d) =>
                 \A c \in Recipients \ {d} :
                     /\ SessionOf(c)' = SessionOf(c)
                     /\ EnabledSteps(c)' = EnabledSteps(c)]_vars

\* One session was closed in mid-stream and stays incomplete; the other,
\* started by the same click, delivered a file of several chunks.
C15_Witness ==
    \E c, d \in Recipients :
        /\ c # d
        /\ sConn[d] = "closed" /\ ChunksSent(d) >= 1 /\ ~Complete(d)
        /\ ~AllBytesSent(d)
        /\ fileToSend.size > chunkSize
        /\ Quiescent(c) /\ Complete(c)
        /\ receivedFileData[c].blob = fileToSend.bytes

\* C16 as stated: a chunk that arrives before any metadata is not buffered,
\* so the chunk buffer stays empty while no metadata was recorded.
C16_NoChunkBufferedBeforeMetadata ==
    \A c \in Recipients :
        ~fileMetadata[c].hasSize => fileChunks[c] = <<>>

\* C17 as stated: a payload is surfaced as a success only when the total
\* length of the chunks equals the declared size.
C17_SurfacedOnlyAtDeclaredSize ==
    [][\A c \in Recipients :
          surfaced'[c] # surfaced[c] =>
              SumByteLength(fileChunks'[c]) = fileMetadata'[c].size]_vars

\* The values handled so far by the receiver's data handler on connection c.
Handled(c) == SubSeq(outbox[c], 1, delivered[c])

IsBuffer(data) == data.buf

\* C18: every ready-ack and metadata message the sender sent is taken as a
\* control message and never appended to the chunk buffer, the metadata being
\* recorded as sent; every byte buffer is taken as a chunk, whatever the MIME
\* type of the file: the chunk buffer is the sequence of byte buffers handled.
C18_ControlAndChunksTakenApart ==
    \A c \in Recipients :
        /\ \A i \in DOMAIN outbox[c] :
              IsControlMessage(outbox[c][i]) <=> ~IsBuffer(outbox[c][i])
        /\ fileChunks[c] = SelectSeq(Handled(c), IsBuffer)
        /\ \A i \in 1..delivered[c] :
              outbox[c][i].type = "metadata" =>
                  fileMetadata[c] = [hasSize |-> TRUE,
                                     name |-> outbox[c][i].name,
                                     mimeType |-> outbox[c][i].mimeType,
                                     size |-> outbox[c][i].size]

\* The receiver handled the ready-ack, the metadata and two chunks of a file
\* whose MIME type is the empty string.
C18_Witness ==
    \E c \in Recipients :
        /\ delivered[c] >= 4
        /\ outbox[c][2].type = "metadata" /\ outbox[c][2].mimeType = ""
        /\ Len(fileChunks[c]) = 2
        /\ fileMetadata[c].hasSize

\* The connections that registered and have not disconnected since.
LiveRegistered ==
    {s \in SocketIds : sockets[s] = "connected" /\ announced[s] # <<>>}

\* The identifiers the registry holds.
RegisteredIds == {users[s] : s \in DOMAIN users}

\* C19: the registry holds exactly the identifiers of the connections that
\* registered and have not disconnected since, each under the identifier it
\* registered last.
C19_RegistryIsLiveRegistrations ==
    /\ DOMAIN users = LiveRegistered
    /\ \A s \in DOMAIN users : users[s] = announced[s][Len(announced[s])]
    /\ RegisteredIds = {announced[s][Len(announced[s])] : s \in LiveRegistered}

\* One connection registered and disconnected, one is registered, and one is
\* connected without having registered.
C19_Witness ==
    \E s1, s2, s3 \in SocketIds :
        /\ sockets[s1] = "disconnected" /\ announced[s1] # <<>>
        /\ s2 \in DOMAIN users
        /\ sockets[s3] = "connected" /\ announced[s3] = <<>>

\* The register events and the deregister events so far.
Registers ==
    Cardinality({<<s, i>> \in SocketIds \X (1..MaxRegisters) :
                    i <= Len(announced[s])})

Deregisters ==
    Cardinality({s \in SocketIds :
                    sockets[s] = "disconnected" /\ announced[s] # <<>>})

\* C20 as stated: the server has broadcast once per register and once per
\* deregister event.
C20_OneBroadcastPerChange ==
    Len(emitted) = Registers + Deregisters

\* C21 as stated: the registry holds one record per identifier, so no two
\* connections are recorded under the same identifier.
C21_OneRecordPerIdentifier ==
    \A s, t \in DOMAIN users : users[s] = users[t] => s = t

\* C22: the disconnection of a connection that never registered leaves the
\* registry as it was, and the server has sent no presence update, hence
\* none that names an unregistered identifier.
C22_UnregisteredDisconnectIsNoOp ==
    /\ [](\A i \in DOMAIN emitted : emitted[i].peerIds \subseteq RegisteredIds)
    /\ [][\A s \in SocketIds :
             (sockets[s] = "connected" /\ sockets'[s] = "disconnected"
                 /\ announced[s] = <<>>)
             => (users' = users /\ emitted' = emitted)]_vars

\* A connection that never registered has disconnected while another
\* connection is registered.
C22_Witness ==
    \E s, t \in SocketIds :
        /\ sockets[s] = "disconnected" /\ announced[s] = <<>>
        /\ t \in DOMAIN users

\* C23 as stated: every get-active-peers query of a connection was answered
\* with an emission to that connection.
C23_QueryIsAnswered ==
    \A s \in SocketIds :
        queried[s] =
            Cardinality({i \in DOMAIN emitted : emitted[i].to = s
                                                /\ emitted[i].reply})

C25_OwnIdentifierNotListed ==
    /\ [](myPeerId # "" => \A i \in DOMAIN availablePeers :
                               availablePeers[i] # myPeerId)
    /\ [][Len(updates') > Len(updates) =>
             /\ \A i \in DOMAIN availablePeers' : availablePeers'[i] # myPeerId
             /\ {availablePeers'[i] : i \in DOMAIN availablePeers'}
                  = {updates'[Len(updates')][i] :
                        i \in DOMAIN updates'[Len(updates')]} \ {myPeerId}
             /\ Len(availablePeers') =
                  Len(updates'[Len(updates')])
                  - Cardinality({i \in DOMAIN updates'[Len(updates')] :
                                    updates'[Len(updates')][i] = myPeerId})]_vars

\* The client holds an identifier and has handled an update that listed it
\* together with another peer; its list holds the other peer only.
C25_Witness ==
    /\ myPeerId # ""
    /\ updates # <<>>
    /\ \E i \in DOMAIN updates[Len(updates)] :
          updates[Len(updates)][i] = myPeerId
    /\ Len(updates[Len(updates)]) = 2
    /\ Len(availablePeers) = 1

\* The receiver's data handler runs for the next value on connection c, and
\* the value is a control message of type t.
HandlesControl(c, t) ==
    /\ delivered'[c] = delivered[c] + 1
    /\ ~outbox[c][delivered'[c]].buf
    /\ outbox[c][delivered'[c]].type = t

\* C26 as stated: handling a metadata message resets the received-byte
\* accounting, so no chunk that arrived before it is counted afterwards.
C26_MetadataResetsCount ==
    [][\A c \in Recipients :
          HandlesControl(c, "metadata") => SumByteLength(fileChunks'[c]) = 0]_vars

\* C27: a ready-ack handled by the receiver, in whatever phase, leaves the
\* recorded metadata, the chunk buffer (hence the byte count), what was
\* surfaced and the status line unchanged, and sends nothing.
C27_ReadyAckIsNoOp ==
    [][\A c \in Recipients :
          HandlesControl(c, "ready-ack") =>
              /\ fileMetadata'[c] = fileMetadata[c]
              /\ fileChunks'[c] = fileChunks[c]
              /\ receivedFileData'[c] = receivedFileData[c]
              /\ showReceivedFileModal'[c] = showReceivedFileModal[c]
              /\ surfaced'[c] = surfaced[c]
              /\ inbox'[c] = inbox[c]
              /\ readySent'[c] = readySent[c]
              /\ rStatus'[c] = rStatus[c]]_vars

\* A redundant ready-ack was handled in mid-stream: after the metadata and a
\* chunk that did not complete the transfer.
C27_Witness ==
    \E c \in Recipients :
        /\ delivered[c] = 3
        /\ outbox[c][1].type = "metadata"
        /\ outbox[c][2].buf
        /\ outbox[c][3].type = "ready-ack"
        /\ fileMetadata[c].hasSize /\ Len(fileChunks[c]) = 1
        /\ ~Complete(c)

\* C28 as stated: on a connection the receiver surfaces a payload at most
\* once.
C28_SurfacedAtMostOnce ==
    \A c \in Recipients : surfaced[c] <= 1

\* The bytes the sender passed to conn.send on connection c, in order.
SentBytes(c) == BlobOf(SelectSeq(outbox[c], IsBuffer))

\* The sender session of connection c has stopped reading with its
\* connection open and without a read error.
SenderDone(c) ==
    isReady[c] /\ sConn[c] = "open" /\ reader[c].state = "idle"

\* C29 as stated: the chunks a session sent are, in order, slices of the file
\* its metadata declared, never more than its size, and all of it once the
\* session has stopped reading on an open connection.
C29_ChunksAreSlicesOfDeclaredFile ==
    \A c \in Recipients :
        Len(outbox[c]) >= 2 =>
            /\ Len(SentBytes(c)) <= outbox[c][2].size
            /\ SentBytes(c) = SubSeq(SourceBytes(c), 1, Len(SentBytes(c)))
            /\ SenderDone(c) => Len(SentBytes(c)) = outbox[c][2].size

\* C30 as stated, in its last clause: a session that has stopped reading on
\* an open connection has sent as many bytes as the file has, whether the
\* file is taken to be the one its metadata declared or the one selected now.
C30_StopsAtFileSize ==
    \A c \in Recipients :
        SenderDone(c) =>
            Len(SentBytes(c)) \in {outbox[c][2].size, fileToSend.size}

\* With the selection kept, a session that has stopped reading has sent the
\* whole file, slice by slice.
StopsAtFileSizeWhenSelectionKept ==
    selects = 0 =>
        \A c \in Recipients :
            /\ Len(outbox[c]) >= 2 =>
                  /\ Len(SentBytes(c)) <= outbox[c][2].size
                  /\ SentBytes(c) = SubSeq(SourceBytes(c), 1, Len(SentBytes(c)))
            /\ SenderDone(c) =>
                  /\ offset[c] = fileToSend.size
                  /\ SentBytes(c) = fileToSend.bytes

\* The signal the relay handled last, the connection it came from, the
\* array the relay looked up for it, and the connections it was sent to.
LastSignal == sent[1]
SenderRoom == SessionsGet(sessionId[LastSignal.from])
LastRecipients == Members(LastSignal.to)

\* C31: a signal message is forwarded to exactly the other connections in
\* the array of the sender's room (the one sessions holds for ws.sessionId)
\* whose readyState is OPEN: every one of them is sent the payload, the
\* sender is not, and no connection that is not open is.
C31_ForwardedToOpenOthers ==
    [][sent' # sent =>
          /\ LastRecipients' =
                 {peer \in Members(SenderRoom') :
                      peer # LastSignal'.from /\ readyState[peer] = OPEN}
          /\ LastSignal'.from \notin LastRecipients'
          /\ \A peer \in LastRecipients' : readyState[peer] = OPEN]_vars

\* A signal was forwarded to a connection of the sender's room while another
\* connection listed in that room, not open, was passed over, as was the
\* sender, itself listed.
C31_Witness ==
    /\ sent # <<>>
    /\ LastSignal.to # <<>>
    /\ LastSignal.from \in Members(SenderRoom)
    /\ \E peer \in Members(SenderRoom) :
           /\ peer # LastSignal.from
           /\ readyState[peer] = CLOSING
           /\ peer \notin LastRecipients

\* C32 as stated: a signal is sent only to connections whose most recent
\* join carried the room id that the sender's most recent join carried
\* (ws.sessionId keeps the id of the most recent join, undefined when the
\* message had none), and a signal from a connection that has sent no join
\* is sent to no one.
C32_RoomIsolation ==
    [][sent' # sent =>
          /\ \A peer \in LastRecipients' :
                 /\ joined[peer]
                 /\ sessionId[peer] = sessionId[LastSignal'.from]
          /\ ~joined[LastSignal'.from] => LastRecipients' = {}]_vars

\* The rooms whose array holds the connection.
RoomsListing(ws) == {k \in DOMAIN sessions : ws \in Members(sessions[k])}

\* C33 as stated: once the close event of a connection has been handled, the
\* connection is an entry of no room's array.
C33_NoGhostAfterClose ==
    \A ws \in Connections : readyState[ws] = CLOSED => RoomsListing(ws) = {}

\* How many entries of the array peers are the connection.
Occurrences(peers, ws) == Cardinality({i \in DOMAIN peers : peers[i] = ws})

\* C34 as stated: a connection is an entry of a room's array at most once,
\* and a signal is sent to each of its recipients at most once.
C34_ListedAndSentToOnce ==
    /\ \A k \in DOMAIN sessions : \A ws \in Connections :
           Occurrences(sessions[k], ws) <= 1
    /\ sent # <<>> =>
           \A ws \in Connections : Occurrences(LastSignal.to, ws) <= 1

====
